---- MODULE Spec2Model ----
(***************************************************************************)
(* Continuous ("infinite") ping of cmd/ping.go: pingInfinite, the ping     *)
(* loop it starts as a goroutine, createMeasurement and the                *)
(* MeasurementsBuffer the loop polls through.                              *)
(***************************************************************************)
EXTENDS Integers, Sequences, FiniteSets, TLC

\* ------------------------------------------------------------------ bounds
\* create requests (successful or not) a run may issue
MaxCreates == 4
\* probes of one measurement (length of m.Results)
MaxProbes == 2
\* longest create call, in clock ticks
MaxDur == 2
\* longest poll call, in clock ticks
MaxPollDur == 1
\* interrupt signals the operating system delivers
MaxSignals == 1
\* r.ctx.APIMinInterval, in clock ticks
APIMinInterval == 2
\* capacity of r.ctx.History
HistoryCapacity == 3
\* commands run one after the other on one context and one session store
MaxCmds == 3
\* characters that follow the @ of a reference given to a command
MaxRefLen == 2

\* NewMeasurementsBuffer(2)
Capacity == 2

\* ------------------------------------------------------------------ values
Nil == 0
Items == 1 .. MaxCreates
StatusInProgress == "in-progress"
StatusFinished == "finished"
Statuses == {StatusInProgress, StatusFinished}
NoErr == "nil"
PollErr == "poll error"
RenderErr == "render error"
CreateErr == "create error"
NoM == [Status |-> "", Results |-> <<>>]

RECURSIVE SeqsUpTo(_, _)
SeqsUpTo(S, n) ==
  IF n = 0 THEN {<<>>}
  ELSE LET shorter == SeqsUpTo(S, n - 1)
       IN shorter \cup {Append(s, x) : s \in {t \in shorter : Len(t) = n - 1}, x \in S}

\* what GetMeasurement may answer: an overall status and the per-probe statuses
Measurements == [Status : Statuses, Results : SeqsUpTo(Statuses, MaxProbes)]

Max(a, b) == IF a >= b THEN a ELSE b
Min(a, b) == IF a <= b THEN a ELSE b

VARIABLES
  pcMain,      \* pingInfinite: "start", "wait", "check", "summary", "returned"
  pcLoop,      \* the goroutine running ping, by the line it is about to execute
  sig,         \* number of signals buffered in the channel sig (capacity 1)
  signals,     \* interrupt signals delivered so far
  err,         \* pingInfinite's err, shared with the goroutine
  mainRet,     \* what pingInfinite returned ("none" before it returns)
  summaries,   \* calls of viewer.OutputSummary
  pingRet,     \* what ping returned, before the goroutine stores it in err
  runErr,      \* ping's runErr
  mbuf,        \* ping's MeasurementsBuffer
  el,          \* ping's el
  m,           \* the measurement GetMeasurement returned, while it is rendered
  elapsedTime, \* ping's elapsedTime
  heap,        \* the HistoryItems createMeasurement allocated, by identity
  created,     \* r.ctx.MeasurementsCreated
  history,     \* r.ctx.History
  createCalls, \* create requests issued
  sinceCreate, \* clock ticks since the last create request was issued (capped)
  sweepCreate, \* clock ticks the create calls of the sweep in progress took
  sleepFor,    \* clock ticks the sleep in progress lasts
  visited,     \* the items Next returned since the last Restart
  pcCmd,       \* RunPing: "idle", "create", "output", "infinite"
  cmdIn,       \* the arguments of the command in progress, or of the last one
  cmdRet,      \* what the last command returned ("none" before any returned)
  cmds,        \* commands started so far
  locations,   \* opts.Locations
  recordToSession, \* r.ctx.RecordToSession
  session,     \* the ids the session store holds, oldest first
  warnings,    \* warnings printed
  requests,    \* the locations each create request of the run carried
  events       \* the run's create responses, pushes, session writes, warnings, renders

vars == <<pcMain, pcLoop, sig, signals, err, mainRet, summaries, pingRet, runErr,
          mbuf, el, m, elapsedTime, heap, created, history, createCalls,
          sinceCreate, sweepCreate, sleepFor, visited, pcCmd, cmdIn, cmdRet, cmds,
          locations, recordToSession, session, warnings, requests, events>>

cmdVars == <<pcCmd, cmdIn, cmdRet, cmds>>
sessVars == <<locations, recordToSession, session, warnings, requests, events>>
mainVars == <<pcMain, err, mainRet, summaries>>
loopVars == <<pcLoop, pingRet, runErr, mbuf, el, m, elapsedTime, heap, created,
              history, createCalls, sinceCreate, sweepCreate, sleepFor, visited>>

\* ------------------------------------------------------------------ MeasurementsBuffer
NewMeasurementsBuffer(capacity) == [capacity |-> capacity, items |-> <<>>, pos |-> 0]

MBufLen(b) == Len(b.items)

\* the items the buffer holds
Held(b) == {b.items[i] : i \in 1 .. Len(b.items)}

\* Next: the buffer after the call, and the item returned (Nil when exhausted)
MBufNext(b) ==
  IF b.pos >= Len(b.items) THEN [buf |-> b, ret |-> Nil]
  ELSE [buf |-> [b EXCEPT !.pos = b.pos + 1], ret |-> b.items[b.pos + 1]]

Restart(b) == [b EXCEPT !.pos = 0]

MBufAppend(b, hm) == [b EXCEPT !.items = Append(b.items, hm)]

\* Remove as it would be without the cursor adjustment of line 262-264
RemoveKeepsPos(b, e) ==
  IF Len(b.items) = 0 THEN b
  ELSE [b EXCEPT !.items = SelectSeq(b.items, LAMBDA x : x # e)]

\* the loop of Remove, at 1-based index i, with newb and b.pos as they are so far
RECURSIVE RemoveLoop(_, _, _, _, _)
RemoveLoop(items, e, i, newb, pos) ==
  IF i > Len(items) THEN [items |-> newb, pos |-> pos]
  ELSE IF items[i] # e THEN RemoveLoop(items, e, i + 1, Append(newb, items[i]), pos)
  ELSE IF i - 1 < pos THEN RemoveLoop(items, e, i + 1, newb, pos - 1)
  ELSE RemoveLoop(items, e, i + 1, newb, pos)

Remove(b, e) ==
  IF Len(b.items) = 0 THEN b
  ELSE LET r == RemoveLoop(b.items, e, 1, <<>>, b.pos)
       IN [b EXCEPT !.items = r.items, !.pos = r.pos]

RECURSIVE CanAppendLoop(_, _)
CanAppendLoop(items, i) ==
  IF i > Len(items) THEN FALSE
  ELSE IF heap[items[i]].IsPartiallyFinished THEN TRUE
  ELSE CanAppendLoop(items, i + 1)

\* CanAppend as it would be without the capacity test of lines 270-272
CanAppendIgnoresCapacity(b) == CanAppendLoop(b.items, 1)

\* CanAppend as it would be if spare capacity alone allowed an append
CanAppendIgnoresFlags(b) == Len(b.items) < b.capacity

CanAppend(b) ==
  IF Len(b.items) >= b.capacity THEN FALSE
  ELSE CanAppendLoop(b.items, 1)

\* ------------------------------------------------------------------ helpers of ping
RECURSIVE AnyFinished(_, _)
AnyFinished(results, i) ==
  IF i > Len(results) THEN FALSE
  ELSE IF results[i] = StatusFinished THEN TRUE
  ELSE AnyFinished(results, i + 1)

IsPartiallyFinished(mm) ==
  IF mm.Status # StatusInProgress THEN FALSE
  ELSE AnyFinished(mm.Results, 1)

\* r.ctx.History: a circular log of the items pushed
NewHistoryBuffer(capacity) == [Index |-> 0, Slice |-> [i \in 0 .. capacity - 1 |-> Nil]]

Push(h, hm) ==
  [Index |-> h.Index + 1,
   Slice |-> [h.Slice EXCEPT ![h.Index % Cardinality(DOMAIN h.Slice)] = hm]]

Last(h) == IF h.Index = 0 THEN Nil ELSE h.Slice[(h.Index - 1) % Cardinality(DOMAIN h.Slice)]

\* the clock: dt ticks pass
Tick(dt) == sinceCreate' = Min(APIMinInterval, sinceCreate + dt)

\* createMeasurement: the request succeeds (ok) or fails, and takes d ticks.
\* The item it returns is NewItem when ok, Nil otherwise.
NewItem == created + 1

\* res.ID: the service gives its n-th create request the n-th id
IdNames == <<"id1", "id2", "id3", "id4", "id5", "id6", "id7", "id8">>
MeasurementID(n) == IdNames[n]

Event(op, id) == [op |-> op, id |-> id]

\* the write of lines 209-217 as it would be without line 211, which clears
\* RecordToSession
saveIdToSessionKeepsFlag(id) ==
  /\ UNCHANGED recordToSession
  /\ IF recordToSession
     THEN \E saved \in BOOLEAN :
            IF saved
            THEN /\ session' = Append(session, id)
                 /\ events' = events \o <<Event("create", id), Event("push", id),
                                            Event("persist", id)>>
                 /\ UNCHANGED warnings
            ELSE /\ warnings' = warnings + 1
                 /\ events' = events \o <<Event("create", id), Event("push", id),
                                            Event("warn", id)>>
                 /\ UNCHANGED session
     ELSE /\ events' = events \o <<Event("create", id), Event("push", id)>>
          /\ UNCHANGED <<session, warnings>>

\* lines 209-217: the id is written to the session store while RecordToSession is
\* set, which the first write attempt clears; a failed write prints a warning
saveIdToSession(id) ==
  IF recordToSession
  THEN /\ recordToSession' = FALSE
       /\ \E saved \in BOOLEAN :
            IF saved
            THEN /\ session' = Append(session, id)
                 /\ events' = events \o <<Event("create", id), Event("push", id),
                                            Event("persist", id)>>
                 /\ UNCHANGED warnings
            ELSE /\ warnings' = warnings + 1
                 /\ events' = events \o <<Event("create", id), Event("push", id),
                                            Event("warn", id)>>
                 /\ UNCHANGED session
  ELSE /\ events' = events \o <<Event("create", id), Event("push", id)>>
       /\ UNCHANGED <<recordToSession, session, warnings>>

\* the request carries opts.Locations as the caller has just set it (locations')
createMeasurement(ok, d) ==
  /\ createCalls' = createCalls + 1
  /\ sinceCreate' = Min(APIMinInterval, d)
  /\ requests' = Append(requests, locations')
  /\ IF ok
     THEN /\ created' = created + 1
          /\ heap' = [heap EXCEPT ![NewItem] =
                        [Id |-> MeasurementID(createCalls + 1),
                         Status |-> StatusInProgress, IsPartiallyFinished |-> FALSE, ProbeStatus |-> <<>>]]
          /\ history' = Push(history, NewItem)
          /\ saveIdToSession(MeasurementID(createCalls + 1))
     ELSE UNCHANGED <<created, heap, history, recordToSession, session, warnings,
                      events>>

\* ------------------------------------------------------------------ Init
NoItem == [Id |-> "", Status |-> "", IsPartiallyFinished |-> FALSE, ProbeStatus |-> <<>>]

\* the locations getLocations gave the continuous run
OriginalLocations == <<"Berlin", "New York">>
NoCmd == [from |-> <<>>, infinite |-> FALSE, limit |-> 1]


EngineInit ==
  /\ pcMain = "start"
  /\ pcLoop = "idle"
  /\ sig = 0
  /\ signals = 0
  /\ err = NoErr
  /\ mainRet = "none"
  /\ summaries = 0
  /\ pingRet = NoErr
  /\ runErr = NoErr
  /\ mbuf = NewMeasurementsBuffer(Capacity)
  /\ el = Nil
  /\ m = NoM
  /\ elapsedTime = 0
  /\ heap = [i \in Items |-> NoItem]
  /\ created = 0
  /\ createCalls = 0
  /\ sinceCreate = APIMinInterval
  /\ sweepCreate = 0
  /\ sleepFor = 0
  /\ visited = <<>>

\* a continuous run as RunPing hands it to pingInfinite, past the test of line 98
Init ==
  /\ EngineInit
  /\ history = NewHistoryBuffer(HistoryCapacity)
  /\ pcCmd = "infinite"
  /\ cmdIn = [from |-> <<<<"Berlin">>, <<"New York">>>>, infinite |-> TRUE, limit |-> 1]
  /\ cmdRet = "none"
  /\ cmds = 1
  /\ locations = OriginalLocations
  /\ recordToSession = TRUE
  /\ session = <<>>
  /\ warnings = 0
  /\ requests = <<>>
  /\ events = <<>>

\* ------------------------------------------------------------------ pingInfinite
\* lines 104-112: the channel is made, the signals are routed to it, the goroutine starts
StartLoop ==
  /\ pcMain = "start"
  /\ pcMain' = "wait"
  /\ pcLoop' = "round"
  /\ UNCHANGED <<sig, signals, err, mainRet, summaries, pingRet, runErr, mbuf, el, m,
                 elapsedTime, heap, created, history, createCalls, sinceCreate,
                 sweepCreate, sleepFor, visited>>
  /\ UNCHANGED cmdVars
  /\ UNCHANGED sessVars

\* the operating system delivers SIGINT or SIGTERM: signal.Notify never blocks,
\* a signal that finds the channel full is dropped
Signal ==
  /\ pcMain # "start"
  /\ signals < MaxSignals
  /\ signals' = signals + 1
  /\ sig' = IF sig = 0 THEN 1 ELSE sig
  /\ UNCHANGED mainVars
  /\ UNCHANGED loopVars
  /\ UNCHANGED cmdVars
  /\ UNCHANGED sessVars

\* line 113: <-sig
MainReceive ==
  /\ pcMain = "wait"
  /\ sig > 0
  /\ sig' = sig - 1
  /\ pcMain' = "check"
  /\ UNCHANGED <<signals, err, mainRet, summaries>>
  /\ UNCHANGED loopVars
  /\ UNCHANGED cmdVars
  /\ UNCHANGED sessVars

\* line 115-116: err is read, and OutputSummary is called when it is nil
MainCheck ==
  /\ pcMain = "check"
  /\ IF err = NoErr
     THEN /\ pcMain' = "summary"
          /\ summaries' = summaries + 1
          /\ UNCHANGED mainRet
     ELSE /\ pcMain' = "returned"
          /\ mainRet' = err
          /\ UNCHANGED summaries
  /\ UNCHANGED <<sig, signals, err>>
  /\ UNCHANGED loopVars
  /\ UNCHANGED cmdVars
  /\ UNCHANGED sessVars

\* lines 116-118: OutputSummary returns, err is read again and returned
MainReturn ==
  /\ pcMain = "summary"
  /\ pcMain' = "returned"
  /\ mainRet' = err
  /\ UNCHANGED <<sig, signals, err, summaries>>
  /\ UNCHANGED loopVars
  /\ UNCHANGED cmdVars
  /\ UNCHANGED sessVars

\* ------------------------------------------------------------------ ping
\* after mbuf.Next(): the sweep goes on with the item returned or ends
AfterNext(r) ==
  /\ mbuf' = r.buf
  /\ el' = r.ret
  /\ visited' = IF r.ret = Nil THEN visited ELSE Append(visited, r.ret)
  /\ pcLoop' = IF r.ret = Nil THEN "swept" ELSE "poll"

\* Round as it would be with elapsedTime declared outside the for loop
RoundKeepsElapsed ==
  /\ pcLoop = "round"
  /\ sweepCreate' = 0
  /\ LET r == MBufNext(Restart(mbuf))
     IN /\ mbuf' = r.buf
        /\ el' = r.ret
        /\ visited' = IF r.ret = Nil THEN <<>> ELSE <<r.ret>>
        /\ pcLoop' = IF r.ret = Nil THEN "swept" ELSE "poll"
  /\ UNCHANGED <<pingRet, runErr, m, heap, created, history, createCalls, sinceCreate,
                 sleepFor, elapsedTime>>
  /\ UNCHANGED <<sig, signals>>
  /\ UNCHANGED mainVars
  /\ UNCHANGED cmdVars
  /\ UNCHANGED sessVars

\* lines 125-127: a round starts
Round ==
  /\ pcLoop = "round"
  /\ elapsedTime' = 0
  /\ sweepCreate' = 0
  /\ LET r == MBufNext(Restart(mbuf))
     IN /\ mbuf' = r.buf
        /\ el' = r.ret
        /\ visited' = IF r.ret = Nil THEN <<>> ELSE <<r.ret>>
        /\ pcLoop' = IF r.ret = Nil THEN "swept" ELSE "poll"
  /\ UNCHANGED <<pingRet, runErr, m, heap, created, history, createCalls, sinceCreate,
                 sleepFor>>
  /\ UNCHANGED <<sig, signals>>
  /\ UNCHANGED mainVars
  /\ UNCHANGED cmdVars
  /\ UNCHANGED sessVars

\* PollFails as it would be if the error were kept in runErr and the sweep went on
PollFailsDeferred ==
  /\ pcLoop = "poll"
  /\ \E dt \in 0 .. MaxPollDur : Tick(dt)
  /\ runErr' = PollErr
  /\ AfterNext(MBufNext(mbuf))
  /\ UNCHANGED <<pingRet, m, elapsedTime, heap, created, history, createCalls,
                 sweepCreate, sleepFor>>
  /\ UNCHANGED <<sig, signals>>
  /\ UNCHANGED mainVars
  /\ UNCHANGED cmdVars
  /\ UNCHANGED sessVars

\* lines 129-133: GetMeasurement fails
PollFails ==
  /\ pcLoop = "poll"
  /\ \E dt \in 0 .. MaxPollDur : Tick(dt)
  /\ pingRet' = PollErr
  /\ pcLoop' = "ret"
  /\ UNCHANGED <<runErr, mbuf, el, m, elapsedTime, heap, created, history, createCalls,
                 sweepCreate, sleepFor, visited>>
  /\ UNCHANGED <<sig, signals>>
  /\ UNCHANGED mainVars
  /\ UNCHANGED cmdVars
  /\ UNCHANGED sessVars

\* lines 129-139: GetMeasurement answers mm; with no results the sweep moves on,
\* otherwise OutputInfinite is called
Poll ==
  /\ pcLoop = "poll"
  /\ \E dt \in 0 .. MaxPollDur : Tick(dt)
  /\ \E mm \in Measurements :
       /\ heap' = [heap EXCEPT ![el].Status = mm.Status]
       /\ IF Len(mm.Results) = 0
          THEN /\ AfterNext(MBufNext(mbuf))
               /\ UNCHANGED m
          ELSE /\ m' = mm
               /\ pcLoop' = "render"
               /\ UNCHANGED <<mbuf, el, visited>>
  /\ UNCHANGED <<pingRet, runErr, elapsedTime, created, history, createCalls,
                 sweepCreate, sleepFor>>
  /\ UNCHANGED <<sig, signals>>
  /\ UNCHANGED mainVars
  /\ UNCHANGED cmdVars
  /\ UNCHANGED sessVars

\* lines 139-143: OutputInfinite fails
RenderFails ==
  /\ pcLoop = "render"
  /\ pingRet' = RenderErr
  /\ pcLoop' = "ret"
  /\ m' = NoM
  /\ UNCHANGED <<runErr, mbuf, el, elapsedTime, heap, created, history, createCalls,
                 sinceCreate, sweepCreate, sleepFor, visited>>
  /\ UNCHANGED <<sig, signals>>
  /\ UNCHANGED mainVars
  /\ UNCHANGED cmdVars
  /\ UNCHANGED sessVars

\* lines 139-152: OutputInfinite returns; a finished item leaves the buffer, an
\* unfinished one has its IsPartiallyFinished set
Render ==
  /\ pcLoop = "render"
  /\ IF m.Status # StatusInProgress
     THEN /\ mbuf' = Remove(mbuf, el)
          /\ UNCHANGED heap
     ELSE /\ heap' = [heap EXCEPT ![el].IsPartiallyFinished = IsPartiallyFinished(m)]
          /\ UNCHANGED mbuf
  /\ m' = NoM
  /\ pcLoop' = "decide"
  /\ UNCHANGED <<pingRet, runErr, el, elapsedTime, created, history, createCalls,
                 sinceCreate, sweepCreate, sleepFor, visited>>
  /\ UNCHANGED <<sig, signals>>
  /\ UNCHANGED mainVars
  /\ UNCHANGED cmdVars
  /\ UNCHANGED sessVars

\* line 153 and 163: a create is due, or the sweep moves on
Decide ==
  /\ pcLoop = "decide"
  /\ IF runErr = NoErr /\ CanAppend(mbuf)
     THEN /\ pcLoop' = "create"
          /\ UNCHANGED <<mbuf, el, visited>>
     ELSE AfterNext(MBufNext(mbuf))
  /\ UNCHANGED <<pingRet, runErr, m, elapsedTime, heap, created, history, createCalls,
                 sinceCreate, sweepCreate, sleepFor>>
  /\ UNCHANGED <<sig, signals>>
  /\ UNCHANGED mainVars
  /\ UNCHANGED cmdVars
  /\ UNCHANGED sessVars

\* the locations of the next request as they would be if lines 154 and 174 did
\* not set them
LocationsKept == locations

\* lines 154 and 174: the id of the last item of the history, as the only location
LocationsOfLast == <<heap[Last(history)].Id>>

\* lines 154-163: the create of the sweep; its error is kept in runErr, what it
\* returned is appended, its duration is added to elapsedTime
SweepCreate ==
  /\ pcLoop = "create"
  /\ createCalls < MaxCreates
  /\ locations' = LocationsOfLast
  /\ \E ok \in BOOLEAN, d \in 0 .. MaxDur :
       /\ createMeasurement(ok, d)
       /\ runErr' = IF ok THEN runErr ELSE CreateErr
       /\ elapsedTime' = elapsedTime + d
       /\ sweepCreate' = sweepCreate + d
       /\ AfterNext(MBufNext(MBufAppend(mbuf, IF ok THEN NewItem ELSE Nil)))
  /\ UNCHANGED <<pingRet, m, sleepFor>>
  /\ UNCHANGED <<sig, signals>>
  /\ UNCHANGED mainVars
  /\ UNCHANGED cmdVars

\* lines 165-171: after the sweep
Swept ==
  /\ pcLoop = "swept"
  /\ IF MBufLen(mbuf) > 0
     THEN /\ sleepFor' = Max(0, APIMinInterval - elapsedTime)
          /\ pcLoop' = "sleep"
          /\ UNCHANGED pingRet
     ELSE IF runErr # NoErr
     THEN /\ pingRet' = runErr
          /\ pcLoop' = "ret"
          /\ UNCHANGED sleepFor
     ELSE /\ pcLoop' = "refill"
          /\ UNCHANGED <<pingRet, sleepFor>>
  /\ UNCHANGED <<runErr, mbuf, el, m, elapsedTime, heap, created, history, createCalls,
                 sinceCreate, sweepCreate, visited>>
  /\ UNCHANGED <<sig, signals>>
  /\ UNCHANGED mainVars
  /\ UNCHANGED cmdVars
  /\ UNCHANGED sessVars

\* lines 166-167: time.Sleep returns
Wake ==
  /\ pcLoop = "sleep"
  /\ Tick(sleepFor)
  /\ sleepFor' = 0
  /\ pcLoop' = "round"
  /\ UNCHANGED <<pingRet, runErr, mbuf, el, m, elapsedTime, heap, created, history,
                 createCalls, sweepCreate, visited>>
  /\ UNCHANGED <<sig, signals>>
  /\ UNCHANGED mainVars
  /\ UNCHANGED cmdVars
  /\ UNCHANGED sessVars

\* lines 172-180: the buffer is empty, a fresh measurement is created
Refill ==
  /\ pcLoop = "refill"
  /\ createCalls < MaxCreates
  /\ locations' = IF Last(history) # Nil THEN LocationsOfLast ELSE locations
  /\ \E ok \in BOOLEAN, d \in 0 .. MaxDur :
       /\ createMeasurement(ok, d)
       /\ IF ok
          THEN /\ mbuf' = MBufAppend(mbuf, NewItem)
               /\ pcLoop' = "round"
               /\ UNCHANGED pingRet
          ELSE /\ pingRet' = CreateErr
               /\ pcLoop' = "ret"
               /\ UNCHANGED mbuf
  /\ UNCHANGED <<runErr, el, m, elapsedTime, sweepCreate, sleepFor, visited>>
  /\ UNCHANGED <<sig, signals>>
  /\ UNCHANGED mainVars
  /\ UNCHANGED cmdVars

\* line 107: the goroutine stores what ping returned in err
StoreErr ==
  /\ pcLoop = "ret"
  /\ err' = pingRet
  /\ pcLoop' = "send"
  /\ UNCHANGED <<pcMain, mainRet, summaries>>
  /\ UNCHANGED <<pingRet, runErr, mbuf, el, m, elapsedTime, heap, created, history,
                 createCalls, sinceCreate, sweepCreate, sleepFor, visited>>
  /\ UNCHANGED <<sig, signals>>
  /\ UNCHANGED cmdVars
  /\ UNCHANGED sessVars

\* line 109: sig <- syscall.SIGINT, which blocks while the channel is full
SendSig ==
  /\ pcLoop = "send"
  /\ sig = 0
  /\ sig' = 1
  /\ pcLoop' = "done"
  /\ UNCHANGED signals
  /\ UNCHANGED mainVars
  /\ UNCHANGED <<pingRet, runErr, mbuf, el, m, elapsedTime, heap, created, history,
                 createCalls, sinceCreate, sweepCreate, sleepFor, visited>>
  /\ UNCHANGED cmdVars
  /\ UNCHANGED sessVars

Next ==
  \/ StartLoop
  \/ Signal
  \/ MainReceive
  \/ MainCheck
  \/ MainReturn
  \/ Round
  \/ PollFails
  \/ Poll
  \/ RenderFails
  \/ Render
  \/ Decide
  \/ SweepCreate
  \/ Swept
  \/ Wake
  \/ Refill
  \/ StoreErr
  \/ SendSig

Spec == Init /\ [][Next]_vars

\* ------------------------------------------------------------------ RunPing
ErrInvalidIndex == "invalid index"
ErrIndexOutOfRange == "index out of range"
ErrorNoPreviousMeasurements == "no previous measurements found"
ErrLimit == "continous mode is currently limited to 5 probes"
ValidationErrors ==
  {ErrInvalidIndex, ErrIndexOutOfRange, ErrorNoPreviousMeasurements, ErrLimit}

\* the most probes a continuous run may ask for
InfiniteLimit == 5

Digits == <<"0", "1", "2", "3", "4", "5", "6", "7", "8", "9">>
DigitChars == {Digits[i] : i \in 1 .. Len(Digits)}
DigitVal(c) == (CHOOSE i \in 1 .. Len(Digits) : Digits[i] = c) - 1

RECURSIVE DigitsValue(_, _, _)
DigitsValue(cs, i, acc) ==
  IF i > Len(cs) THEN acc ELSE DigitsValue(cs, i + 1, acc * Len(Digits) + DigitVal(cs[i]))

\* the integer a string of characters denotes: an optional minus sign, then one
\* digit or more
Atoi(cs) ==
  LET neg == Len(cs) > 0 /\ cs[1] = "-"
      ds == IF neg THEN Tail(cs) ELSE cs
  IN IF Len(ds) = 0 \/ \E i \in 1 .. Len(ds) : ds[i] \notin DigitChars
     THEN [ok |-> FALSE, val |-> 0]
     ELSE [ok |-> TRUE,
           val |-> IF neg THEN 0 - DigitsValue(ds, 1, 0) ELSE DigitsValue(ds, 1, 0)]

\* A token of the from clause is a sequence of symbols: a whole word (a keyword or
\* a place), or an @ followed by single characters.
NamedRefs == {<<"last">>, <<"previous">>, <<"first">>}
Places == {<<"Berlin">>, <<"New York">>, <<"world">>}
RefChars == {"-", "x"} \cup {Digits[i + 1] : i \in 0 .. MaxCmds + 1}
AtRefs == {<<"@">> \o cs : cs \in SeqsUpTo(RefChars, MaxRefLen)}
Refs == NamedRefs \cup AtRefs

IsReference(tok) == tok \in NamedRefs \/ tok[1] = "@"

\* the index a reference denotes: 1 is the oldest, -1 the newest; 0 and what is
\* not a number are invalid
RefIndex(tok) ==
  IF tok \in {<<"last">>, <<"previous">>} THEN [ok |-> TRUE, val |-> 0 - 1]
  ELSE IF tok = <<"first">> THEN [ok |-> TRUE, val |-> 1]
  ELSE LET a == Atoi(Tail(tok))
       IN IF a.ok /\ a.val # 0 THEN a ELSE [ok |-> FALSE, val |-> 0]

\* resolve as it would be if a positive index counted from the newest id
resolveCountsFromNewest(sess, tok) ==
  LET n == RefIndex(tok)
  IN IF ~n.ok THEN [err |-> ErrInvalidIndex, id |-> ""]
     ELSE IF Len(sess) = 0 THEN [err |-> ErrorNoPreviousMeasurements, id |-> ""]
     ELSE IF n.val > Len(sess) \/ 0 - n.val > Len(sess)
     THEN [err |-> ErrIndexOutOfRange, id |-> ""]
     ELSE IF n.val > 0 THEN [err |-> NoErr, id |-> sess[Len(sess) - n.val + 1]]
     ELSE [err |-> NoErr, id |-> sess[Len(sess) + n.val + 1]]

\* resolve as it would be without the test for an empty record
resolveNoEmptyTest(sess, tok) ==
  LET n == RefIndex(tok)
  IN IF ~n.ok THEN [err |-> ErrInvalidIndex, id |-> ""]
     ELSE IF n.val > Len(sess) \/ 0 - n.val > Len(sess)
     THEN [err |-> ErrIndexOutOfRange, id |-> ""]
     ELSE IF n.val > 0 THEN [err |-> NoErr, id |-> sess[n.val]]
     ELSE [err |-> NoErr, id |-> sess[Len(sess) + n.val + 1]]

\* resolve as it would be if an index beyond the record gave the nearest id
resolveClamps(sess, tok) ==
  LET n == RefIndex(tok)
  IN IF ~n.ok THEN [err |-> ErrInvalidIndex, id |-> ""]
     ELSE IF Len(sess) = 0 THEN [err |-> ErrorNoPreviousMeasurements, id |-> ""]
     ELSE IF n.val > 0 THEN [err |-> NoErr, id |-> sess[Min(n.val, Len(sess))]]
     ELSE [err |-> NoErr, id |-> sess[Max(1, Len(sess) + n.val + 1)]]

\* resolve as it would be if the record were tested for emptiness before the
\* reference is parsed
resolveEmptyFirst(sess, tok) ==
  LET n == RefIndex(tok)
  IN IF Len(sess) = 0 THEN [err |-> ErrorNoPreviousMeasurements, id |-> ""]
     ELSE IF ~n.ok THEN [err |-> ErrInvalidIndex, id |-> ""]
     ELSE IF n.val > Len(sess) \/ 0 - n.val > Len(sess)
     THEN [err |-> ErrIndexOutOfRange, id |-> ""]
     ELSE IF n.val > 0 THEN [err |-> NoErr, id |-> sess[n.val]]
     ELSE [err |-> NoErr, id |-> sess[Len(sess) + n.val + 1]]

\* a reference resolved against the ids of the session record, oldest first
resolve(sess, tok) ==
  LET n == RefIndex(tok)
  IN IF ~n.ok THEN [err |-> ErrInvalidIndex, id |-> ""]
     ELSE IF Len(sess) = 0 THEN [err |-> ErrorNoPreviousMeasurements, id |-> ""]
     ELSE IF n.val > Len(sess) \/ 0 - n.val > Len(sess)
     THEN [err |-> ErrIndexOutOfRange, id |-> ""]
     ELSE IF n.val > 0 THEN [err |-> NoErr, id |-> sess[n.val]]
     ELSE [err |-> NoErr, id |-> sess[Len(sess) + n.val + 1]]

\* the context as it would be without the default of the from clause
updateContextNoDefault(from) == from

\* ctx.From: "world" when the command has no from clause
updateContext(from) == IF from = <<>> THEN <<<<"world">>>> ELSE from

\* createLocations: one selector for each place of the comma-separated list
createLocations(from) == [i \in 1 .. Len(from) |-> from[i][1]]

\* getLocations: a single token that is a reference is resolved, and the run of a
\* resolved reference is not recorded; anything else is a list of places
getLocations(sess, from) ==
  IF Len(from) = 1 /\ IsReference(from[1])
  THEN LET r == resolve(sess, from[1])
       IN [err |-> r.err, fromHistory |-> r.err = NoErr,
           locations |-> IF r.err = NoErr THEN <<r.id>> ELSE <<>>]
  ELSE [err |-> NoErr, fromHistory |-> FALSE, locations |-> createLocations(from)]

FromInputs ==
  {<<>>, <<<<"Berlin">>>>, <<<<"Berlin">>, <<"New York">>>>} \cup {<<tok>> : tok \in Refs}
\* a one-shot run does not test the limit: only continuous runs are given one
CmdInputs ==
  [from : FromInputs, infinite : {FALSE}, limit : {1}]
    \cup [from : FromInputs, infinite : {TRUE},
          limit : {InfiniteLimit, InfiniteLimit + 1}]

\* pingInfinite as it would be without the test of line 98
LimitNeverExceeded(in) == FALSE

\* line 98: a continuous run is refused above the limit
LimitExceeded(in) == in.limit > InfiniteLimit

cmdFrame ==
  UNCHANGED <<pcMain, pcLoop, sig, signals, err, mainRet, summaries, pingRet, runErr,
              mbuf, el, m, elapsedTime, sweepCreate, sleepFor, visited>>

\* lines 60-88 and 98-100: the context is updated, the locations are resolved, and
\* a continuous run is refused above the limit; the run's logs start empty
RunPing ==
  /\ pcCmd = "idle"
  /\ cmds < MaxCmds
  /\ cmds' = cmds + 1
  /\ requests' = <<>>
  /\ events' = <<>>
  /\ \E in \in CmdInputs :
       LET g == getLocations(session, updateContext(in.from))
       IN /\ cmdIn' = in
          /\ locations' = g.locations
          /\ recordToSession' = ~g.fromHistory
          /\ IF g.err # NoErr
             THEN /\ cmdRet' = g.err
                  /\ pcCmd' = "idle"
             ELSE IF in.infinite
             THEN IF LimitExceeded(in)
                  THEN /\ cmdRet' = ErrLimit
                       /\ pcCmd' = "idle"
                  ELSE /\ cmdRet' = "none"
                       /\ pcCmd' = "infinite"
             ELSE /\ cmdRet' = "none"
                  /\ pcCmd' = "create"
  /\ UNCHANGED <<session, warnings, heap, created, history, createCalls, sinceCreate>>
  /\ cmdFrame

\* lines 90-93: the one measurement of a one-shot run is created
OneShotCreate ==
  /\ pcCmd = "create"
  /\ createCalls < MaxCreates
  /\ locations' = locations
  /\ \E ok \in BOOLEAN :
       /\ createMeasurement(ok, 0)
       /\ IF ok
          THEN /\ pcCmd' = "output"
               /\ UNCHANGED cmdRet
          ELSE /\ pcCmd' = "idle"
               /\ cmdRet' = CreateErr
  /\ UNCHANGED <<cmdIn, cmds>>
  /\ cmdFrame

\* line 94: the measurement just created is handed to the viewer, whose result is
\* the command's
OneShotOutput ==
  /\ pcCmd = "output"
  /\ events' = Append(events, Event("render", heap[created].Id))
  /\ \E ok \in BOOLEAN : cmdRet' = IF ok THEN NoErr ELSE RenderErr
  /\ pcCmd' = "idle"
  /\ UNCHANGED <<cmdIn, cmds, locations, recordToSession, session, warnings, requests,
                 heap, created, history, createCalls, sinceCreate>>
  /\ cmdFrame

CmdNext ==
  \/ RunPing
  \/ OneShotCreate
  \/ OneShotOutput

\* a fresh context and an empty session store, before any command
CmdInit ==
  /\ EngineInit
  /\ \E c \in 1 .. HistoryCapacity : history = NewHistoryBuffer(c)
  /\ pcCmd = "idle"
  /\ cmdIn = NoCmd
  /\ cmdRet = "none"
  /\ cmds = 0
  /\ locations = <<>>
  /\ recordToSession = FALSE
  /\ session = <<>>
  /\ warnings = 0
  /\ requests = <<>>
  /\ events = <<>>

CmdSpec == CmdInit /\ [][CmdNext]_vars

\* ------------------------------------------------------------------ the buffer alone
\* The methods of MeasurementsBuffer called in any order, on items allocated one
\* after the other; Append is called where ping calls it: on an empty buffer
\* (line 180) or when CanAppend allows it (line 160).
windowFrame ==
  UNCHANGED <<pcMain, pcLoop, sig, signals, err, mainRet, summaries, pingRet, runErr,
              m, elapsedTime, history, createCalls, sinceCreate, sweepCreate, sleepFor,
              pcCmd, cmdIn, cmdRet, cmds, locations, recordToSession, session,
              warnings, requests, events>>

WRestart ==
  /\ mbuf' = Restart(mbuf)
  /\ visited' = <<>>
  /\ el' = Nil
  /\ UNCHANGED <<heap, created>>
  /\ windowFrame

WNext ==
  /\ LET r == MBufNext(mbuf)
     IN /\ mbuf' = r.buf
        /\ el' = r.ret
        /\ visited' = IF r.ret = Nil THEN visited ELSE Append(visited, r.ret)
  /\ UNCHANGED <<heap, created>>
  /\ windowFrame

WAppend ==
  /\ created < MaxCreates
  /\ MBufLen(mbuf) = 0 \/ CanAppend(mbuf)
  /\ created' = created + 1
  /\ heap' = [heap EXCEPT ![NewItem] =
                [Id |-> MeasurementID(NewItem), Status |-> StatusInProgress,
                 IsPartiallyFinished |-> FALSE, ProbeStatus |-> <<>>]]
  /\ mbuf' = MBufAppend(mbuf, NewItem)
  /\ UNCHANGED <<el, visited>>
  /\ windowFrame

\* Append called without the test of line 154: on a buffer that is neither empty
\* nor allowed to grow by CanAppend, a full buffer included
WAppendUnchecked ==
  /\ created < MaxCreates
  /\ ~(MBufLen(mbuf) = 0 \/ CanAppend(mbuf))
  /\ created' = created + 1
  /\ heap' = [heap EXCEPT ![NewItem] =
                [Id |-> MeasurementID(NewItem), Status |-> StatusInProgress,
                 IsPartiallyFinished |-> FALSE, ProbeStatus |-> <<>>]]
  /\ mbuf' = MBufAppend(mbuf, NewItem)
  /\ UNCHANGED <<el, visited>>
  /\ windowFrame

\* Remove of any item allocated so far, held by the buffer or not
WRemove(e) ==
  /\ e \in 1 .. created
  /\ mbuf' = Remove(mbuf, e)
  /\ UNCHANGED <<el, visited, heap, created>>
  /\ windowFrame

\* line 147: an item of the buffer has its IsPartiallyFinished set
WSetPartial ==
  /\ \E e \in Held(mbuf), v \in BOOLEAN :
       /\ heap[e].IsPartiallyFinished # v
       /\ heap' = [heap EXCEPT ![e].IsPartiallyFinished = v]
  /\ UNCHANGED <<mbuf, el, visited, created>>
  /\ windowFrame

WindowNext ==
  \/ WRestart
  \/ WNext
  \/ WAppend
  \/ WAppendUnchecked
  \/ \E e \in Items : WRemove(e)
  \/ WSetPartial

WindowSpec == Init /\ [][WindowNext]_vars

\* ------------------------------------------------------------------ claims
\* a run-level error has occurred: a poll, a render or a create request failed
ErrorOccurred == pingRet # NoErr \/ runErr # NoErr

\* the error that occurred
TheError == IF pingRet # NoErr THEN pingRet ELSE runErr

\* C1: with a signal received and no error, the summary is rendered only when no
\* incremental render of the loop is in flight, once, and the run returns success
C1_SummaryAfterRenders ==
  /\ (summaries > 0 /\ ~ErrorOccurred) => pcLoop # "render"
  /\ summaries <= 1
  /\ (pcMain = "returned" /\ ~ErrorOccurred) => (summaries = 1 /\ mainRet = NoErr)

\* C2: once a run-level error has occurred the summary is never rendered and the
\* run returns that error, whenever the signal arrives
C2_ErrorTakesPrecedence ==
  [][ErrorOccurred =>
       /\ summaries' = summaries
       /\ (mainRet' # mainRet => mainRet' = TheError)]_vars

\* C3: once the run has rendered its summary and returned, the loop starts no
\* round and issues no create request
C3_NoRoundAfterReturn ==
  [][(pcMain = "returned" /\ summaries > 0) =>
       /\ createCalls' = createCalls
       /\ (pcLoop = "round" => pcLoop' = "round")]_vars

\* C4: after a create request of a sweep failed no further create is issued, and
\* once no outstanding item is left in the buffer the buffer is empty, so that the
\* recorded error is returned
C4_DeferredErrorReturned ==
  runErr # NoErr => (Held(mbuf) \subseteq {Nil} => MBufLen(mbuf) = 0)

\* C5 as stated: a failed poll or render is surfaced only after the buffer has
\* drained
C5_SurfacedAfterDrain ==
  pingRet \in {PollErr, RenderErr} => MBufLen(mbuf) = 0

\* C5 as amended: a failed poll or render ends the run at once; ping returns the
\* error with the item whose poll or render failed still in the buffer, and from
\* then on nothing is polled, rendered, created or removed
C5_FailureEndsRun ==
  /\ [](pingRet \in {PollErr, RenderErr} =>
          /\ pcLoop \in {"ret", "send", "done"}
          /\ el \in Held(mbuf))
  /\ [][(pingRet \in {PollErr, RenderErr}) =>
          UNCHANGED <<mbuf, heap, createCalls, created, history, pingRet>>]_vars

C5_Witness ==
  /\ pingRet = RenderErr
  /\ pcLoop = "done"
  /\ MBufLen(mbuf) = Capacity

\* C6: between two consecutive create requests at least the minimum interval
\* elapses
C6_MinIntervalBetweenCreates ==
  [][(createCalls' > createCalls /\ createCalls > 0) =>
       sinceCreate >= APIMinInterval]_vars

\* C7: the sleep after a sweep that leaves the buffer non-empty lasts
\* max(0, APIMinInterval - E), E the time the create calls of that sweep took
C7_SleepLength ==
  pcLoop = "sleep" =>
    /\ MBufLen(mbuf) > 0
    /\ sleepFor = (IF sweepCreate >= APIMinInterval THEN 0
                   ELSE APIMinInterval - sweepCreate)

C7_Witness ==
  /\ pcLoop = "sleep"
  /\ sweepCreate > 0
  /\ sweepCreate < APIMinInterval
  /\ sleepFor = APIMinInterval - sweepCreate
  /\ createCalls > 2

C9_CanAppend ==
  CanAppend(mbuf) <=>
    /\ MBufLen(mbuf) < mbuf.capacity
    /\ \E e \in Held(mbuf) : heap[e].IsPartiallyFinished

C9_Witness ==
  /\ MBufLen(mbuf) = Capacity
  /\ \A e \in Held(mbuf) : heap[e].IsPartiallyFinished
  /\ ~CanAppend(mbuf)

\* the items Next returned in this sweep that the buffer still holds are the items
\* before the cursor, in the order of the buffer
C10_SweepOrder ==
  /\ mbuf.pos \in 0 .. MBufLen(mbuf)
  /\ SelectSeq(visited, LAMBDA e : e \in Held(mbuf)) = SubSeq(mbuf.items, 1, mbuf.pos)

\* Remove(e) takes e out and keeps the others in order; the cursor goes down by one
\* when e was before it and stays otherwise
C10_CursorStep ==
  \A e \in Items :
    WRemove(e) =>
      /\ mbuf'.items = SelectSeq(mbuf.items, LAMBDA x : x # e)
      /\ mbuf'.pos = IF \E i \in 1 .. mbuf.pos : mbuf.items[i] = e
                     THEN mbuf.pos - 1
                     ELSE mbuf.pos

\* C10: in a sweep Next returns each item that remains in the buffer once, in the
\* order of appending, whatever is removed or appended on the way
C10_SweepVisitsEachOnce == []C10_SweepOrder /\ [][C10_CursorStep]_vars

C10_Witness ==
  /\ Len(visited) > Capacity
  /\ MBufLen(mbuf) = Capacity
  /\ mbuf.pos = MBufLen(mbuf)
  /\ el = Nil

\* C11: Append adds the item only while the buffer holds fewer than capacity items:
\* an Append on a buffer already at capacity leaves its contents unchanged, so no
\* sequence of Appends makes the buffer hold more than capacity items
C11_AppendAtCapacityRefused ==
  [][(MBufLen(mbuf) >= mbuf.capacity) => MBufLen(mbuf') <= MBufLen(mbuf)]_vars

\* C12: a ping command that fails validation makes no remote call: when the
\* reference fails to resolve (invalid index, index out of range, no previous
\* measurements) or a continuous run asks for more than 5 probes, the command
\* returns that error having issued no create request and no poll, and having
\* pushed nothing into the history or the buffer; and no command whose reference
\* fails or whose limit is above 5 goes on to create
C12_FailedRunIsEmpty ==
  /\ (pcCmd = "idle" /\ cmdRet \in ValidationErrors)
       => requests = <<>> /\ events = <<>> /\ pcLoop = "idle" /\ MBufLen(mbuf) = 0
  /\ (pcCmd \in {"create", "infinite"})
       => /\ cmdIn.infinite => cmdIn.limit <= InfiniteLimit
          /\ (Len(cmdIn.from) = 1 /\ IsReference(cmdIn.from[1]))
               => resolve(session, cmdIn.from[1]).err = NoErr

C12_FailedRunStep ==
  (cmds' = cmds + 1 /\ pcCmd' = "idle")
    => /\ cmdRet' \in ValidationErrors
       /\ UNCHANGED <<createCalls, created, history, heap, mbuf, session, pcLoop>>

C12_ValidationMakesNoRemoteCall == []C12_FailedRunIsEmpty /\ [][C12_FailedRunStep]_vars

C12_Witness ==
  /\ pcCmd = "idle"
  /\ cmdRet = ErrIndexOutOfRange
  /\ created > 0

\* a one-shot command has returned without error
OneShotSucceeded == pcCmd = "idle" /\ cmds > 0 /\ ~cmdIn.infinite /\ cmdRet = NoErr

\* the location of the command was taken from a reference to an earlier measurement
FromHistory == Len(cmdIn.from) = 1 /\ IsReference(cmdIn.from[1])

\* the events of a one-shot run that created, pushed, did what with the session
\* record, and rendered the measurement id
OneShotEvents(id, what) ==
  <<Event("create", id), Event("push", id)>> \o what \o <<Event("render", id)>>

\* C13: a successful one-shot run issues exactly one create request, pushes exactly
\* one item carrying the returned id, appends that id exactly once to the session
\* record, renders that id exactly once and never polls; the create precedes the
\* push and the write, which precede the render; with no from clause the location
\* sent is "world"
C13_OneShotRun ==
  OneShotSucceeded =>
    LET id == heap[created].Id
    IN /\ Len(requests) = 1
       /\ events = OneShotEvents(id, <<Event("persist", id)>>)
       /\ Len(session) > 0 /\ session[Len(session)] = id
       /\ Last(history) = created
       /\ pcLoop = "idle" /\ MBufLen(mbuf) = 0
       /\ cmdIn.from = <<>> => requests[1] = <<"world">>

\* C13 amended: the id is appended once to the session record unless the location
\* was taken from a history reference (the run is not recorded) or the write
\* fails (a warning is printed instead); the rest is as the claim says
C13_OneShotRunRecordedOnce ==
  OneShotSucceeded =>
    LET id == heap[created].Id
    IN /\ Len(requests) = 1
       /\ id = MeasurementID(createCalls)
       /\ Last(history) = created
       /\ pcLoop = "idle" /\ MBufLen(mbuf) = 0
       /\ cmdIn.from = <<>> => requests[1] = <<"world">>
       /\ IF FromHistory
          THEN events = OneShotEvents(id, <<>>)
          ELSE \/ /\ events = OneShotEvents(id, <<Event("persist", id)>>)
                  /\ Len(session) > 0 /\ session[Len(session)] = id
               \/ events = OneShotEvents(id, <<Event("warn", id)>>)

C13_Witness ==
  /\ OneShotSucceeded
  /\ cmdIn.from = <<>>
  /\ requests = <<<<"world">>>>
  /\ Len(events) = Len(OneShotEvents("", <<Event("persist", "")>>))
  /\ events[Len(events) - 1].op = "persist"

\* the ids the run created, in creation order
CreatedIds == [k \in 1 .. created |-> heap[k].Id]

\* the ids the run wrote to the session record, in the order of the writes
PersistedIds ==
  LET ps == SelectSeq(events, LAMBDA e : e.op = "persist")
  IN [k \in 1 .. Len(ps) |-> ps[k].id]

\* C14: every measurement a run creates, one-shot or continuous, appends one line
\* holding its id to the session store: the ids the run persisted are the ids of
\* the measurements it created, in creation order
C14_EveryCreatePersisted ==
  /\ PersistedIds = CreatedIds
  /\ session = CreatedIds

\* C14 amended: a run writes to the session store for the first measurement it
\* creates and for no other: the record gains the first id when that one write
\* succeeds and nothing (a warning is printed) when it fails
C14_FirstCreatePersisted ==
  /\ session = PersistedIds
  /\ \A i \in 1 .. Len(events) :
       events[i].op \in {"persist", "warn"}
         => i = 3 /\ events[i].id = events[1].id
  /\ IF created = 0
     THEN session = <<>> /\ warnings = 0 /\ recordToSession
     ELSE /\ ~recordToSession
          /\ \/ session = <<heap[1].Id>> /\ warnings = 0
             \/ session = <<>> /\ warnings = 1

C14_Witness ==
  /\ created > 1
  /\ session = <<heap[1].Id>>
  /\ mainRet # "none"

\* C15: a failure to persist the measurement id never aborts the command: when
\* the write to the session store fails, createMeasurement still returns the new
\* item and no error (the one-shot run goes on to render it), the item is in the
\* history, the created counter is incremented, and the only effect of the
\* failure is one warning
C15_WriteFailureStep ==
  (warnings' # warnings)
    => /\ warnings' = warnings + 1
       /\ created' = created + 1
       /\ Last(history') = created'
       /\ heap'[created'].Id = MeasurementID(createCalls')
       /\ events' = events \o <<Event("create", heap'[created'].Id),
                                 Event("push", heap'[created'].Id),
                                 Event("warn", heap'[created'].Id)>>
       /\ pcCmd' = "output"
       /\ ~recordToSession'
       /\ UNCHANGED <<cmdRet, session>>

C15_WriteFailureOnlyWarns == [][C15_WriteFailureStep]_vars

C15_Witness ==
  /\ OneShotSucceeded
  /\ warnings > 0
  /\ \E i \in 1 .. Len(events) : events[i].op = "warn"
  /\ events[Len(events)].op = "render"

\* the reference @N and the reference @-N, for a number N of one digit
At(n) == <<"@", Digits[n + 1]>>
AtMinus(n) == <<"@", "-", Digits[n + 1]>>

\* the item of the history buffer pushed longest ago among those it still holds
OldestRetained(h) ==
  h.Slice[Max(0, h.Index - Cardinality(DOMAIN h.Slice)) % Cardinality(DOMAIN h.Slice)]

\* the reference of the command in progress resolved, and the command goes on
\* with the id it resolved to
ResolvedTo(tok, id) ==
  (pcCmd = "create" /\ cmdIn.from = <<tok>>) => locations = <<id>>

\* the reference of the command was refused with the error e
RefusedWith(tok, e) ==
  (pcCmd = "idle" /\ cmds > 0 /\ cmdIn.from = <<tok>>) => cmdRet = e

\* C16: for every capacity of the history buffer and any number of pushes (one at
\* least), "last", "previous" and "@-1" resolve to the item pushed most recently,
\* and "@1" and "first" to the oldest item the buffer still holds, which is not
\* the first item created once the buffer has wrapped around
C16_LastAndOldestRetained ==
  history.Index >= 1 =>
    /\ \A tok \in {<<"last">>, <<"previous">>, AtMinus(1)} :
         resolve(session, tok) = [err |-> NoErr, id |-> heap[Last(history)].Id]
    /\ \A tok \in {<<"first">>, At(1)} :
         resolve(session, tok) = [err |-> NoErr, id |-> heap[OldestRetained(history)].Id]

\* C16 amended: references resolve against the session record, not the history
\* buffer: with one id recorded at least, "last", "previous" and "@-1" resolve
\* to the id recorded most recently and "@1" and "first" to the id recorded
\* first, whatever the capacity of the history buffer and however often it has
\* wrapped around
C16_LastAndFirstRecorded ==
  Len(session) >= 1 =>
    /\ \A tok \in {<<"last">>, <<"previous">>, AtMinus(1)} :
         /\ resolve(session, tok) = [err |-> NoErr, id |-> session[Len(session)]]
         /\ ResolvedTo(tok, session[Len(session)])
    /\ \A tok \in {<<"first">>, At(1)} :
         /\ resolve(session, tok) = [err |-> NoErr, id |-> session[1]]
         /\ ResolvedTo(tok, session[1])

C16_Witness ==
  /\ pcCmd = "create"
  /\ cmdIn.from = <<At(1)>>
  /\ history.Index > Cardinality(DOMAIN history.Slice)
  /\ locations = <<session[1]>>
  /\ session[1] # heap[OldestRetained(history)].Id

\* C17: when no measurement has been created, resolve fails with "no previous
\* measurements" for every reference (last, previous, first, @N, @-N and
\* malformed @ tokens alike), never with "index out of range"
C17_EmptyAlwaysNoPrevious ==
  created = 0 =>
    \A tok \in Refs : resolve(session, tok).err = ErrorNoPreviousMeasurements

\* C17 amended: with nothing recorded, every well-formed reference (last,
\* previous, first, @N and @-N with N not 0) fails with "no previous
\* measurements", never with "index out of range"; a malformed @ token fails
\* with "invalid index", as it does in every other state
C17_EmptyNoPreviousIfWellFormed ==
  Len(session) = 0 =>
    \A tok \in Refs :
      LET e == IF tok \in NamedRefs \/ (Atoi(Tail(tok)).ok /\ Atoi(Tail(tok)).val # 0)
               THEN ErrorNoPreviousMeasurements ELSE ErrInvalidIndex
      IN /\ resolve(session, tok).err = e
         /\ RefusedWith(tok, e)

C17_Witness ==
  /\ pcCmd = "idle"
  /\ created = 0
  /\ cmdIn.from = <<AtMinus(1)>>
  /\ cmdRet = ErrorNoPreviousMeasurements

\* what follows the @ is not a number: a character that is no digit, a minus sign
\* that is not in front, or a minus sign alone
NonNumeric(cs) ==
  \/ \E i \in 1 .. Len(cs) : cs[i] \notin DigitChars /\ (cs[i] # "-" \/ i > 1)
  \/ cs = <<"-">>

Malformed(tok) ==
  /\ tok \in AtRefs
  /\ Tail(tok) = <<>> \/ Tail(tok) = <<"0">> \/ NonNumeric(Tail(tok))

\* C18: "@0", "@x" for any x that is not a number, and "@" fail with "invalid
\* index" in every state of the history, empty or not, and leave it unchanged
C18_MalformedState ==
  \A tok \in Refs :
    Malformed(tok) =>
      /\ resolve(session, tok).err = ErrInvalidIndex
      /\ RefusedWith(tok, ErrInvalidIndex)

C18_MalformedStep ==
  (cmds' = cmds + 1 /\ Len(cmdIn'.from) = 1 /\ Malformed(cmdIn'.from[1]))
    => UNCHANGED <<history, heap, created, createCalls, session>>

C18_MalformedIsInvalidIndex == []C18_MalformedState /\ [][C18_MalformedStep]_vars

C18_Witness ==
  /\ pcCmd = "idle"
  /\ cmdRet = ErrInvalidIndex
  /\ cmdIn.from = <<At(0)>>
  /\ history.Index > 0
  /\ Len(session) > 0

\* C19: with one measurement created at least, "@N" and "@-N" fail with "index
\* out of range" whenever N exceeds the number created or the slot of the item
\* referred to has been overwritten by wraparound, and otherwise resolve to the
\* N-th item created, respectively the N-th most recent
C19_OutOfRangeOrOverwritten ==
  history.Index >= 1 =>
    \A n \in 1 .. MaxCmds + 1 :
      LET cap == Cardinality(DOMAIN history.Slice)
      IN /\ resolve(session, At(n)) =
              IF n > history.Index \/ n <= history.Index - cap
              THEN [err |-> ErrIndexOutOfRange, id |-> ""]
              ELSE [err |-> NoErr, id |-> heap[n].Id]
         /\ resolve(session, AtMinus(n)) =
              IF n > history.Index \/ n > cap
              THEN [err |-> ErrIndexOutOfRange, id |-> ""]
              ELSE [err |-> NoErr, id |-> heap[history.Index - n + 1].Id]

\* C19 amended: the count is that of the ids in the session record, which does
\* not wrap around: with one id recorded at least, "@N" and "@-N" fail with
\* "index out of range" exactly when N exceeds the number of ids recorded, and
\* otherwise resolve to the N-th id recorded, from the oldest and from the
\* newest; "@" followed by that number plus one fails with "index out of range"
C19_OutOfRangeOfRecord ==
  Len(session) >= 1 =>
    \A n \in 1 .. MaxCmds + 1 :
      /\ resolve(session, At(n)) =
           IF n > Len(session) THEN [err |-> ErrIndexOutOfRange, id |-> ""]
           ELSE [err |-> NoErr, id |-> session[n]]
      /\ resolve(session, AtMinus(n)) =
           IF n > Len(session) THEN [err |-> ErrIndexOutOfRange, id |-> ""]
           ELSE [err |-> NoErr, id |-> session[Len(session) - n + 1]]
      /\ n > Len(session) => /\ RefusedWith(At(n), ErrIndexOutOfRange)
                             /\ RefusedWith(AtMinus(n), ErrIndexOutOfRange)

C19_Witness ==
  /\ pcCmd = "idle"
  /\ Len(session) >= 1
  /\ cmdIn.from = <<At(Len(session) + 1)>>
  /\ cmdRet = ErrIndexOutOfRange

\* C20: in a continuous run every create request after the first carries, as its
\* only location, the id of the most recent item of the history at the time of
\* the request, so that the k-th request targets the id the (k-1)-th create
\* returned, while the first request carries the original locations
C20_RequestChain ==
  /\ Len(requests) = createCalls
  /\ \A k \in 1 .. Len(requests) :
       requests[k] = IF k = 1 THEN OriginalLocations ELSE <<MeasurementID(k - 1)>>
  /\ \A k \in 2 .. Len(requests) : k - 1 <= created /\ requests[k] = <<heap[k - 1].Id>>

C20_RequestStep ==
  (createCalls' = createCalls + 1 /\ createCalls >= 1)
    => requests'[createCalls'] = <<heap[Last(history)].Id>>

C20_RequestsFollowLastId == []C20_RequestChain /\ [][C20_RequestStep]_vars

C20_Witness ==
  /\ Len(requests) >= 3
  /\ requests[1] = OriginalLocations
  /\ requests[3] = <<heap[2].Id>>
  /\ MBufLen(mbuf) = Capacity

\* a step of the goroutine that polled el and got an answer without results: it
\* has moved on to the next item of the buffer, or to the end of the sweep
EmptyPollStep ==
  /\ pcLoop = "poll"
  /\ pcLoop' \in {"poll", "swept"}
  /\ <<mbuf', el'>> # <<mbuf, el>>

\* C21: the id of a history item never changes after creation and its status only
\* moves from in-progress to finished: whatever the service answers to the polls,
\* no item's stored status goes from finished back to in-progress
C21_StatusStep ==
  \A k \in Items :
    /\ heap[k].Id # "" => heap'[k].Id = heap[k].Id
    /\ heap[k].Status = StatusFinished => heap'[k].Status = StatusFinished

C21_StatusNeverReverses == [][C21_StatusStep]_vars

\* C22: a poll that returns no results moves on to the next item and leaves
\* everything else as it was: the polled item's status and partially-finished
\* flag, the contents of the buffer, the history and the round's elapsed time
\* are unchanged, and nothing is rendered or created
C22_EmptyPollStep ==
  EmptyPollStep
    => /\ heap' = heap
       /\ mbuf'.items = mbuf.items
       /\ UNCHANGED <<history, elapsedTime, created, createCalls, m, requests, events>>

C22_EmptyPollChangesNothing == [][C22_EmptyPollStep]_vars

\* the items the history buffer holds
Retained(h) == {h.Slice[i] : i \in DOMAIN h.Slice} \ {Nil}

\* C23: in every state of a continuous run every entry of the buffer is an item
\* the history holds, a measurement that was created and pushed: never a nil
\* pointer, never what a failed create returned
C23_WindowHoldsHistoryItems ==
  \A i \in 1 .. MBufLen(mbuf) : mbuf.items[i] \in Retained(history)

\* C24: after a poll that returned results the polled item records the answer:
\* its status is the status polled and its per-probe statuses are those of the
\* results, in order, and this is so before the result is rendered
C24_PollRecorded ==
  pcLoop = "render"
    => /\ heap[el].Status = m.Status
       /\ heap[el].ProbeStatus = m.Results

====
